---- MODULE Spec2Model ----
(***************************************************************************)
(* The asynchronous research-job orchestration of server.py: the registry  *)
(* task_queue, the handlers deep_research (Submit), task_status (Status),  *)
(* get_research_chunk (FetchChunk) and quick_research, and the background  *)
(* worker poll_parallel_task.                                              *)
(*                                                                         *)
(* The server is one asyncio event loop: a coroutine runs without          *)
(* interruption from one await to the next. deep_research, task_status and *)
(* get_research_chunk contain no await, so each is one atomic action.      *)
(* poll_parallel_task and quick_research suspend only in asyncio.sleep, so *)
(* each of their actions runs from one sleep (or the start) to the next    *)
(* sleep (or the end).                                                     *)
(*                                                                         *)
(* Texts. A text is modelled by the sequence of its maximal runs of        *)
(* consecutive characters: the run <<lo, hi>> stands for the characters    *)
(* numbered lo, lo+1, ..., hi-1. Every string over the alphabet of the     *)
(* naturals has exactly one such representation, so equality of texts is   *)
(* equality of representations. The remote result's content of length n is *)
(* the text 0, 1, ..., n-1 (pairwise distinct characters), which makes any *)
(* loss, overlap or reordering of slices visible.                          *)
(***************************************************************************)
EXTENDS Integers, Sequences, FiniteSets, TLC

VARIABLES
    parallel_client,    \* module global: None or the client (set once by main)
    fail_fast_default,  \* default of SystemLogger.error's fail_fast parameter
    env_default,        \* os.getenv("DEFAULT_PROCESSOR"): None when unset
    task_queue,         \* module global: task_id -> TaskState
    worker,             \* task_id -> the job's poll_parallel_task coroutine
    created,            \* task_id -> the task_run.create call made for the job
    quick,              \* the quick_research coroutine
    status_log,         \* task_id -> every value assigned to TaskState.status
    event               \* the last step taken and how it ended

vars == <<parallel_client, fail_fast_default, env_default, task_queue, worker,
          created, quick, status_log, event>>

----------------------------------------------------------------------------
\* Bounds of the model

MaxCalls == 2       \* deep_research and quick_research calls that reach task_run.create
MaxPolls == 2       \* polls of one run that report it active
MaxChunks == 3      \* largest number of chunks a modelled content splits into
MaxBasis == 1       \* citation groups in a modelled result

----------------------------------------------------------------------------
\* Values

\* Optional[T]: None is the empty sequence, a value v is <<v>>.
None == <<>>
Some(v) == <<v>>
Get(o) == o[1]

PENDING == "pending"
APPROVED == "approved"
RUNNING == "running"
COMPLETE == "complete"
FAILED == "failed"
CANCELLED == "cancelled"

TaskStatus == {PENDING, APPROVED, RUNNING, COMPLETE, FAILED, CANCELLED}

valid_processors ==
    {"lite", "base", "core", "core2x", "pro", "ultra", "ultra2x", "ultra4x", "ultra8x"}

TokenLimit == 15000     \* estimated_tokens > 15000
CharsPerToken == 4      \* len(content) / 4, chunk_size = 15000 * 4

\* The identifiers uuid4 can return, and one identifier no job ever gets.
TaskIds == 1..MaxCalls
NoSuchId == MaxCalls + 1

Queries == {"q"}
ProcessorArgs == {Some("lite"), Some("turbo"), None}
EnvSettings == {None, Some("core"), Some("mega")}

\* Exceptions, by their text (str(e)).
ExcCreate == "create failed"
ExcRetrieve == "retrieve failed"
ExcResult == "result failed"
ExcParse == "object is not iterable"
ExcLog == "log write failed"

----------------------------------------------------------------------------
\* Texts

Min(a, b) == IF a <= b THEN a ELSE b

\* The text 0, 1, ..., n-1.
Text(n) == IF n = 0 THEN <<>> ELSE << <<0, n>> >>

RECURSIVE TextLen(_)
TextLen(t) == IF t = <<>> THEN 0 ELSE (t[1][2] - t[1][1]) + TextLen(Tail(t))

\* s + t
Concat(s, t) ==
    IF s = <<>> THEN t
    ELSE IF t = <<>> THEN s
    ELSE IF s[Len(s)][2] = t[1][1]
         THEN SubSeq(s, 1, Len(s) - 1) \o << <<s[Len(s)][1], t[1][2]>> >> \o Tail(t)
         ELSE s \o t

\* "".join(chunks)
RECURSIVE Join(_)
Join(chunks) == IF chunks = <<>> THEN <<>> ELSE Concat(Head(chunks), Join(Tail(chunks)))

\* content[i:j] for the content Text(n), 0 <= i <= j
Slice(n, i, j) ==
    IF Min(i, n) >= Min(j, n) THEN <<>> ELSE << <<Min(i, n), Min(j, n)>> >>

----------------------------------------------------------------------------
\* Chunking (inline in poll_parallel_task)

chunk_size == TokenLimit * CharsPerToken

\* TooLarge with the estimate taken by integer division.
MutTooLargeFloorDiv(n) == (n \div CharsPerToken) > TokenLimit

\* estimated_tokens > 15000, where estimated_tokens = len(content) / 4 is
\* Python's true division: n / 4 > 15000 exactly when n > 15000 * 4.
TooLarge(n) == n > TokenLimit * CharsPerToken

\* int(estimated_tokens)
EstimatedTokens(n) == n \div CharsPerToken

\* SplitChunks over the whole multiples of chunk_size only: the characters
\* after the last whole chunk are left out.
MutSplitChunksWholeOnly(n) ==
    [k \in 1..(n \div chunk_size) |-> Slice(n, (k - 1) * chunk_size, k * chunk_size)]

\* for i in range(0, len(content), chunk_size): chunks.append(content[i:i+chunk_size])
SplitChunks(n) ==
    [k \in 1..((n + chunk_size - 1) \div chunk_size) |->
        Slice(n, (k - 1) * chunk_size, k * chunk_size)]

\* The chunks list built for the content Text(n).
MakeChunks(n) == IF TooLarge(n) THEN SplitChunks(n) ELSE <<Text(n)>>

\* The content lengths the modelled remote returns: the empty content, the
\* multiples of chunk_size (the first is the longest content that is not
\* split) and one character past each of them (2, 3, ..., MaxChunks chunks).
ContentLens ==
    {0} \cup {k * chunk_size : k \in 1..(MaxChunks - 1)}
        \cup {k * chunk_size + 1 : k \in 1..(MaxChunks - 1)}

\* The results the modelled remote returns, as <<len(content), len(basis)>>.
RemoteResults ==
    {<<n, 0>> : n \in ContentLens} \cup {<<0, b>> : b \in 1..MaxBasis}

----------------------------------------------------------------------------
\* Records

\* TaskState(task_id=..., query=..., processor=...)
TaskState(task_id, query, processor) ==
    [task_id |-> task_id, query |-> query, processor |-> processor,
     status |-> PENDING, result |-> None, error |-> None,
     created_at |-> "now", started_at |-> None, run_id |-> None]

\* One citation group as poll_parallel_task builds it from a basis item that
\* carries no citations.
CitationGroup == [field |-> "f", citations |-> <<>>, confidence |-> None, reasoning |-> None]

\* The dict installed in task_state.result.
ResultDict(n, nbasis, processor, run_id) ==
    [status |-> "complete", content |-> Text(n), chunks |-> MakeChunks(n),
     total_chunks |-> Len(MakeChunks(n)), estimated_tokens |-> EstimatedTokens(n),
     citations |-> [i \in 1..nbasis |-> CitationGroup],
     processor |-> processor, run_id |-> run_id]

\* A coroutine of poll_parallel_task: where it is ("none": never created,
\* "spawned": created and not yet run, "sleeping": in asyncio.sleep, "done":
\* returned, "crashed": ended by an exception), and its local poll_count.
NoWorker == [pc |-> "none", poll_count |-> 0]

\* The coroutine of quick_research: where it is, its local poll count, and
\* the number of task_run.create calls quick_research has made.
QuickIdle == [pc |-> "idle", polls |-> 0, calls |-> 0]

\* A step: the handler or coroutine that ran, the job it created or ran for
\* (NoSuchId: none), how it ended (the kind of response of deep_research and
\* quick_research, what the poll of poll_parallel_task saw), and the error
\* text it answered with or the exception it raised. What task_status and
\* get_research_chunk return is StatusResponse and ChunkResponse.
Event(op, task_id, kind, detail) ==
    [op |-> op, task_id |-> task_id, kind |-> kind, detail |-> detail]

\* A response: its kind, the state name or error text it quotes, the text it
\* carries, the chunk number and the chunk count it names.
Response(kind, detail, body, chunk, total) ==
    [kind |-> kind, detail |-> detail, body |-> body, chunk |-> chunk, total |-> total]

----------------------------------------------------------------------------
\* SystemLogger.error(message, exception=e, context=...) called without a
\* fail_fast argument: TRUE when the call raises e again instead of returning.
\* utils/logger.py is not among the sources; test_logger.py passes
\* fail_fast=False to keep such a call from failing fast, so the default is
\* left open and both loggers are modelled.
LoggerErrorRaises == fail_fast_default

----------------------------------------------------------------------------
Init ==
    /\ parallel_client \in {None, Some("Parallel")}
    /\ fail_fast_default \in BOOLEAN
    /\ env_default \in EnvSettings
    /\ task_queue = <<>>
    /\ worker = [j \in TaskIds |-> NoWorker]
    /\ created = [j \in TaskIds |-> None]
    /\ quick = QuickIdle
    /\ status_log = [j \in TaskIds |-> <<>>]
    /\ event = Event("main", NoSuchId, "", "")

----------------------------------------------------------------------------
\* deep_research (Submit)

\* os.getenv("DEFAULT_PROCESSOR", default)
Getenv(default) == IF env_default = None THEN default ELSE Get(env_default)

\* ResolveProcessor without the validation against valid_processors.
MutResolveUnchecked(arg) == IF arg = None THEN Getenv("pro") ELSE Get(arg)

\* The processor deep_research goes on with: the environment's default for a
\* missing argument, "pro" for a name outside valid_processors.
ResolveProcessor(arg) ==
    LET processor == IF arg = None THEN Getenv("pro") ELSE Get(arg)
    IN  IF processor \notin valid_processors THEN "pro" ELSE processor

\* str(uuid.uuid4()): an identifier no record has. The identifiers are named
\* in the order uuid4 hands them out.
uuid4 == CHOOSE id \in TaskIds \ DOMAIN task_queue :
            \A other \in TaskIds \ DOMAIN task_queue : id <= other

\* The task_run.create calls made so far.
CreateCalls == Cardinality(DOMAIN task_queue) + quick.calls

\* A task_run.create call: its arguments and whether it returned a run.
CreateCall(query, processor, ok) ==
    [input |-> query, processor |-> processor, ok |-> ok]

\* run.run_id of the run created for the job task_id: the remote's runs are
\* named after the job they were created for.
RunId(task_id) == task_id

\* The answer of the user to the approval request (ApprovalSchema.approved).
ApprovalAnswers == BOOLEAN

\* The decision deep_research has obtained for the job when it reaches
\* task_run.create. The handler builds approval_message and goes on to the
\* try block: the message is sent nowhere and no ApprovalSchema is read, for
\* any processor.
ApprovalDecision(task_id) == None

\* The except block of deep_research, reached with the record still PENDING:
\* SystemLogger.error(..., exception=e) and, when that call returns,
\* status = FAILED, error = str(e) and the "ERROR: ..." response.
SubmitFailed(task_state, e) ==
    IF LoggerErrorRaises
    THEN /\ task_queue' = task_queue @@ (task_state.task_id :> task_state)
         /\ status_log' = [status_log EXCEPT ![task_state.task_id] = <<PENDING>>]
         /\ event' = Event("deep_research", task_state.task_id, "raised", e)
    ELSE /\ task_queue' = task_queue @@ (task_state.task_id :>
                [task_state EXCEPT !.status = FAILED, !.error = Some(e)])
         /\ status_log' = [status_log EXCEPT ![task_state.task_id] = <<PENDING, FAILED>>]
         /\ event' = Event("deep_research", task_state.task_id, "error", e)

\* SubmitAccepted that runs the start of the polling itself before it
\* answers: the record is RUNNING when the task id is returned.
MutSubmitAcceptedStartsPolling(task_state) ==
    /\ task_queue' = task_queue @@ (task_state.task_id :>
            [task_state EXCEPT !.run_id = Some(RunId(task_state.task_id)),
                               !.status = RUNNING, !.started_at = Some("now")])
    /\ status_log' = [status_log EXCEPT ![task_state.task_id] =
                            <<PENDING, APPROVED, RUNNING>>]
    /\ worker' = [worker EXCEPT ![task_state.task_id].pc = "spawned"]
    /\ event' = Event("deep_research", task_state.task_id, "submitted", "")

\* SubmitAccepted that binds the registry to a new dict holding the new record
\* only.
MutSubmitAcceptedNewRegistry(task_state) ==
    /\ task_queue' = (task_state.task_id :>
            [task_state EXCEPT !.run_id = Some(RunId(task_state.task_id)),
                               !.status = APPROVED])
    /\ status_log' = [status_log EXCEPT ![task_state.task_id] = <<PENDING, APPROVED>>]
    /\ worker' = [worker EXCEPT ![task_state.task_id].pc = "spawned"]
    /\ event' = Event("deep_research", task_state.task_id, "submitted", "")

\* SubmitAccepted that stamps started_at when the run is created, before any
\* worker has run.
MutSubmitAcceptedStampsStart(task_state) ==
    /\ task_queue' = task_queue @@ (task_state.task_id :>
            [task_state EXCEPT !.run_id = Some(RunId(task_state.task_id)),
                               !.status = APPROVED, !.started_at = Some("now")])
    /\ status_log' = [status_log EXCEPT ![task_state.task_id] = <<PENDING, APPROVED>>]
    /\ worker' = [worker EXCEPT ![task_state.task_id].pc = "spawned"]
    /\ event' = Event("deep_research", task_state.task_id, "submitted", "")

\* The try block of deep_research when task_run.create returns a run: run_id
\* and status are set, the worker is created, the task id is answered.
SubmitAccepted(task_state) ==
    /\ task_queue' = task_queue @@ (task_state.task_id :>
            [task_state EXCEPT !.run_id = Some(RunId(task_state.task_id)),
                               !.status = APPROVED])
    /\ status_log' = [status_log EXCEPT ![task_state.task_id] = <<PENDING, APPROVED>>]
    /\ worker' = [worker EXCEPT ![task_state.task_id].pc = "spawned"]
    /\ event' = Event("deep_research", task_state.task_id, "submitted", "")

\* deep_research with the client check after the record is created and
\* inserted.
MutDeepResearchChecksLate(query, arg, create_ok) ==
    /\ CreateCalls < MaxCalls
    /\ parallel_client = None
    /\ create_ok
    /\ task_queue' = task_queue @@ (uuid4 :> TaskState(uuid4, query, ResolveProcessor(arg)))
    /\ status_log' = [status_log EXCEPT ![uuid4] = <<PENDING>>]
    /\ event' = Event("deep_research", NoSuchId, "client_error", "")
    /\ UNCHANGED <<parallel_client, fail_fast_default, env_default, worker, created, quick>>

\* deep_research(query, processor): create_ok says whether task_run.create
\* returns a run or raises.
deep_research(query, arg, create_ok) ==
    LET processor == ResolveProcessor(arg) IN
    IF parallel_client = None
    THEN /\ create_ok
         /\ event' = Event("deep_research", NoSuchId, "client_error", "")
         /\ UNCHANGED <<parallel_client, fail_fast_default, env_default, task_queue,
                        worker, created, quick, status_log>>
    ELSE /\ CreateCalls < MaxCalls
         /\ LET task_id == uuid4
                task_state == TaskState(task_id, query, processor)
            IN  /\ created' = [created EXCEPT ![task_id] =
                                    Some(CreateCall(query, processor, create_ok))]
                /\ IF create_ok
                   THEN SubmitAccepted(task_state)
                   ELSE SubmitFailed(task_state, ExcCreate) /\ UNCHANGED worker
         /\ UNCHANGED <<parallel_client, fail_fast_default, env_default, quick>>

----------------------------------------------------------------------------
\* poll_parallel_task (the polling worker)
\*
\* A run of the coroutine takes the record task_state and the job's status
\* log to an outcome [task, pc, log, kind, detail]: the record and the log
\* after it, where the coroutine is, what the last poll saw and the exception
\* that ended the try block.

\* WorkerFailed with a retry: the except block puts the job back to APPROVED.
MutWorkerFailedRetries(task_state, log, saw, e) ==
    [task |-> [task_state EXCEPT !.status = APPROVED, !.error = Some(e)],
     pc |-> "done", log |-> Append(log, APPROVED), kind |-> saw, detail |-> e]

\* WorkerFailed with a retry: the except block creates a new worker for the
\* record with asyncio.create_task and leaves the record as it is.
MutWorkerFailedRespawns(task_state, log, saw, e) ==
    [task |-> task_state, pc |-> "spawned", log |-> log, kind |-> saw, detail |-> e]

\* WorkerFailed that records the text and leaves the status as it is: the
\* except block without the assignment status = FAILED.
MutWorkerFailedErrorOnly(task_state, log, saw, e) ==
    [task |-> [task_state EXCEPT !.error = Some(e)],
     pc |-> "done", log |-> log, kind |-> saw, detail |-> e]

\* The except block, for the exception e: SystemLogger.error(..., exception=e)
\* and, when that call returns, status = FAILED and error = str(e).
WorkerFailed(task_state, log, saw, e) ==
    IF LoggerErrorRaises
    THEN [task |-> task_state, pc |-> "crashed", log |-> log,
          kind |-> saw, detail |-> e]
    ELSE [task |-> [task_state EXCEPT !.status = FAILED, !.error = Some(e)],
          pc |-> "done", log |-> Append(log, FAILED),
          kind |-> saw, detail |-> e]

\* WorkerCompleted with a statement that raises after the result is installed
\* and the status set, and an except block that then marks the job FAILED.
MutWorkerCompletedThenFails(task_state, log, saw, n, nbasis) ==
    [task |-> [task_state EXCEPT
                 !.result = Some(ResultDict(n, nbasis, task_state.processor,
                                            Get(task_state.run_id))),
                 !.status = FAILED, !.error = Some(ExcParse)],
     pc |-> "done", log |-> Append(Append(log, COMPLETE), FAILED),
     kind |-> saw, detail |-> ExcParse]

\* WorkerCompleted with the two assignments the other way round and a
\* suspension between them: the run ends with the status COMPLETE and the
\* result not yet installed.
MutWorkerCompletedStatusFirst(task_state, log, saw, n, nbasis) ==
    [task |-> [task_state EXCEPT !.status = COMPLETE],
     pc |-> "sleeping", log |-> Append(log, COMPLETE), kind |-> saw, detail |-> ""]

\* The end of the try block: task_state.result is installed, then the status.
WorkerCompleted(task_state, log, saw, n, nbasis) ==
    [task |-> [task_state EXCEPT
                 !.result = Some(ResultDict(n, nbasis, task_state.processor,
                                            Get(task_state.run_id))),
                 !.status = COMPLETE],
     pc |-> "done", log |-> Append(log, COMPLETE),
     kind |-> saw, detail |-> ""]

\* len(content) of the content extracted from the result: "" when the result
\* has no output.content, else the str, or the dict's "output" entry.
ContentLen(content, n) == IF content = "absent" THEN 0 ELSE n

\* From task_run.result to the end, the run reported inactive with the
\* status saw. task_run.result raises or returns; the basis is not iterable
\* (TypeError), or absent or a list (an absent basis and an empty one both
\* leave citations = []).
WorkerRetrieves(task_state, log, saw) ==
    {WorkerFailed(task_state, log, saw, ExcResult),
     WorkerFailed(task_state, log, saw, ExcParse)}
    \cup {WorkerCompleted(task_state, log, saw, ContentLen(content, r[1]), r[2]) :
            content \in {"absent", "str", "dict"}, r \in RemoteResults}

\* WorkerOutcomes with a limit on the polls: a worker that wakes from its
\* sleep and is told once more that the run is active gives up and marks the
\* job FAILED.
MutWorkerOutcomesTimesOut(task_state0, log0, poll_count, started) ==
    LET task_state == IF started THEN task_state0
                      ELSE [task_state0 EXCEPT !.status = RUNNING,
                                               !.started_at = Some("now")]
        log == IF started THEN log0 ELSE Append(log0, RUNNING)
    IN  {WorkerFailed(task_state, log, "raise", ExcRetrieve)}
        \cup (IF poll_count < MaxPolls
              THEN {IF poll_count >= 1
                    THEN [task |-> [task_state EXCEPT !.status = FAILED,
                                                      !.error = Some("timeout")],
                          pc |-> "done", log |-> Append(log, FAILED),
                          kind |-> "running", detail |-> ""]
                    ELSE [task |-> task_state, pc |-> "sleeping", log |-> log,
                          kind |-> "running", detail |-> ""]}
              ELSE {})
        \cup WorkerRetrieves(task_state, log, "completed")
        \cup WorkerRetrieves(task_state, log, "failed")

\* Everything one run of the coroutine can come to, from the first statement
\* of the try block (started = FALSE) or from asyncio.sleep (started = TRUE).
WorkerOutcomes(task_state0, log0, poll_count, started) ==
    LET task_state == IF started THEN task_state0
                      ELSE [task_state0 EXCEPT !.status = RUNNING,
                                               !.started_at = Some("now")]
        log == IF started THEN log0 ELSE Append(log0, RUNNING)
    IN  {WorkerFailed(task_state, log, "raise", ExcRetrieve)}
        \cup (IF poll_count < MaxPolls
              THEN {[task |-> task_state, pc |-> "sleeping", log |-> log,
                     kind |-> "running", detail |-> ""]}
              ELSE {})
        \cup WorkerRetrieves(task_state, log, "completed")
        \cup WorkerRetrieves(task_state, log, "failed")

\* poll_parallel_task that finds the records to write by the query of its
\* job instead of holding its own record: every record with the same query
\* gets the status, result, error and started_at of the run.
MutPollParallelTaskByQuery(j) ==
    /\ j \in DOMAIN task_queue
    /\ worker[j].pc \in {"spawned", "sleeping"}
    /\ \E out \in WorkerOutcomes(task_queue[j], status_log[j], worker[j].poll_count,
                                 worker[j].pc = "sleeping") :
          /\ task_queue' = [k \in DOMAIN task_queue |->
                IF task_queue[k].query = task_queue[j].query
                THEN [task_queue[k] EXCEPT !.status = out.task.status,
                                           !.result = out.task.result,
                                           !.error = out.task.error,
                                           !.started_at = out.task.started_at]
                ELSE task_queue[k]]
          /\ worker' = [worker EXCEPT ![j] =
                [pc |-> out.pc,
                 poll_count |-> IF out.pc = "sleeping" THEN worker[j].poll_count + 1
                                ELSE 0]]
          /\ status_log' = [status_log EXCEPT ![j] = out.log]
          /\ event' = Event("poll_parallel_task", j, out.kind, out.detail)
    /\ UNCHANGED <<parallel_client, fail_fast_default, env_default, created, quick>>

\* One run of the coroutine of job j, from its start or from
\* asyncio.sleep(10) to the next asyncio.sleep(10) or to its end.
poll_parallel_task(j) ==
    /\ j \in DOMAIN task_queue
    /\ worker[j].pc \in {"spawned", "sleeping"}
    /\ \E out \in WorkerOutcomes(task_queue[j], status_log[j], worker[j].poll_count,
                                 worker[j].pc = "sleeping") :
          /\ task_queue' = [task_queue EXCEPT ![j] = out.task]
          /\ worker' = [worker EXCEPT ![j] =
                [pc |-> out.pc,
                 poll_count |-> IF out.pc = "sleeping" THEN worker[j].poll_count + 1
                                ELSE 0]]
          /\ status_log' = [status_log EXCEPT ![j] = out.log]
          /\ event' = Event("poll_parallel_task", j, out.kind, out.detail)
    /\ UNCHANGED <<parallel_client, fail_fast_default, env_default, created, quick>>

----------------------------------------------------------------------------
\* task_status (Status)

\* The response for a COMPLETE record: the first chunk when the result was
\* split, the whole content otherwise.
StatusComplete(task) ==
    IF task.result = None
    THEN Response("raised", "AttributeError", <<>>, 0, 0)
    ELSE LET result == Get(task.result) IN
         IF result.total_chunks > 1
         THEN Response("complete_chunked", COMPLETE, result.chunks[1], 1,
                       result.total_chunks)
         ELSE Response("complete", COMPLETE, result.content, 1, result.total_chunks)

\* f"{task.error}"
ErrorText(task) == IF task.error = None THEN "None" ELSE Get(task.error)

\* The whole seconds between the time a record names (created_at, or
\* started_at for a job in progress) and the datetime.now() of a task_status
\* call. No time is a tie of the rounding to a tenth of a minute.
Times == {0, 1, 59, 60, 62, 121}

\* elapsed_str: f"{elapsed_seconds/60:.1f} minutes" from a minute on, as the
\* number of tenths of a minute, and f"{elapsed_seconds:.0f} seconds" below.
ElapsedStr(elapsed_seconds) ==
    IF elapsed_seconds >= 60
    THEN <<(elapsed_seconds + 3) \div 6, "tenths of a minute">>
    ELSE <<elapsed_seconds, "seconds">>

\* The duration task_status reports for a record, elapsed seconds after the
\* time it counts from: "Actual Duration" and "Failed After" count from
\* created_at, "Elapsed Time" from started_at.
StatusDuration(task, elapsed) ==
    IF task.status \in {COMPLETE, FAILED} THEN ElapsedStr(elapsed)
    ELSE IF task.started_at # None THEN ElapsedStr(elapsed)
    ELSE <<0, "Not started yet">>

\* StatusResponse without the membership test: task_queue[task_id] raises
\* KeyError for an unknown id.
MutStatusResponseNoLookup(task_id) ==
    IF task_id \notin DOMAIN task_queue
    THEN Response("raised", "KeyError", <<>>, 0, 0)
    ELSE Response("in_progress", task_queue[task_id].status, <<>>, 0, 0)

\* What task_status(task_id) returns.
StatusResponse(task_id) ==
    IF task_id \notin DOMAIN task_queue
    THEN Response("not_found", "", <<>>, 0, 0)
    ELSE LET task == task_queue[task_id] IN
         IF task.status = COMPLETE THEN StatusComplete(task)
         ELSE IF task.status = FAILED
         THEN Response("failed", ErrorText(task), <<>>, 0, 0)
         ELSE Response("in_progress", task.status, <<>>, 0, 0)

\* What a task_status(task_id) call made elapsed seconds after the record's
\* time shows: the response and the duration it reports.
StatusView(task_id, elapsed) ==
    [response |-> StatusResponse(task_id),
     duration |-> IF task_id \in DOMAIN task_queue
                  THEN StatusDuration(task_queue[task_id], elapsed)
                  ELSE <<0, "">>]

\* task_status that gives up a job it finds unfinished: it marks the record
\* FAILED with an error before it answers.
MutTaskStatusGivesUp(task_id) ==
    /\ event' = Event("task_status", NoSuchId, "", "")
    /\ IF task_id \in DOMAIN task_queue /\ task_queue[task_id].status = RUNNING
       THEN /\ task_queue' = [task_queue EXCEPT ![task_id].status = FAILED,
                                                ![task_id].error = Some("timed out")]
            /\ status_log' = [status_log EXCEPT ![task_id] = Append(@, FAILED)]
       ELSE UNCHANGED <<task_queue, status_log>>
    /\ UNCHANGED <<parallel_client, fail_fast_default, env_default, worker, created, quick>>

task_status(task_id) ==
    /\ event' = Event("task_status", NoSuchId, "", "")
    /\ UNCHANGED <<parallel_client, fail_fast_default, env_default, task_queue,
                   worker, created, quick, status_log>>

----------------------------------------------------------------------------
\* get_research_chunk (FetchChunk)

\* The chunk numbers callers ask for.
ChunkArgs == 0..(MaxChunks + 1)

\* ChunkOf taking the chunk number for the list index (numbered from 0).
MutChunkOfFromZero(task, chunk) ==
    LET result == Get(task.result) IN
    IF chunk < 0 \/ chunk >= result.total_chunks
    THEN Response("out_of_range", "", <<>>, chunk, result.total_chunks)
    ELSE Response("chunk", "", result.chunks[chunk + 1], chunk, result.total_chunks)

\* The response for a COMPLETE record.
ChunkOf(task, chunk) ==
    IF task.result = None
    THEN Response("raised", "AttributeError", <<>>, chunk, 0)
    ELSE LET result == Get(task.result)
             total_chunks == result.total_chunks
             chunks == result.chunks
         IN  IF chunk < 1 \/ chunk > total_chunks
             THEN Response("out_of_range", "", <<>>, chunk, total_chunks)
             ELSE IF chunk > Len(chunks)
             THEN Response("raised", "IndexError", <<>>, chunk, 0)
             ELSE Response("chunk", "", chunks[chunk], chunk, total_chunks)

\* ChunkResponse that takes only an unfinished job for not ready: a FAILED
\* record goes on to the chunk lookup.
MutChunkResponseFailedPasses(task_id, chunk) ==
    IF task_id \notin DOMAIN task_queue
    THEN Response("not_found", "", <<>>, chunk, 0)
    ELSE LET task == task_queue[task_id] IN
         IF task.status \in {PENDING, APPROVED, RUNNING}
         THEN Response("not_ready", task.status, <<>>, chunk, 0)
         ELSE IF task.result = None
         THEN Response("raised", "AttributeError", <<>>, chunk, 0)
         ELSE Response("chunk", "", Get(task.result).chunks[1], chunk,
                       Get(task.result).total_chunks)

\* What get_research_chunk(task_id, chunk) returns.
ChunkResponse(task_id, chunk) ==
    IF task_id \notin DOMAIN task_queue
    THEN Response("not_found", "", <<>>, chunk, 0)
    ELSE LET task == task_queue[task_id] IN
         IF task.status # COMPLETE
         THEN Response("not_ready", task.status, <<>>, chunk, 0)
         ELSE ChunkOf(task, chunk)

\* get_research_chunk that, asked for a chunk of a job whose worker sleeps
\* between two polls, cancels the worker.
MutGetResearchChunkCancelsWorker(task_id, chunk) ==
    /\ event' = Event("get_research_chunk", NoSuchId, "", "")
    /\ worker' = [j \in DOMAIN worker |->
                    IF j = task_id /\ worker[j].pc = "sleeping"
                    THEN [pc |-> "done", poll_count |-> 0] ELSE worker[j]]
    /\ UNCHANGED <<parallel_client, fail_fast_default, env_default, task_queue,
                   created, quick, status_log>>

\* get_research_chunk(task_id, chunk): the answer is ChunkResponse(task_id, chunk).
get_research_chunk(task_id, chunk) ==
    /\ event' = Event("get_research_chunk", NoSuchId, "", "")
    /\ UNCHANGED <<parallel_client, fail_fast_default, env_default, task_queue,
                   worker, created, quick, status_log>>

----------------------------------------------------------------------------
\* quick_research

\* The except block of quick_research: the error is logged with the
\* exception and, when that call returns, answered as "ERROR: ...".
QuickFailed(e) ==
    [pc |-> "idle",
     event |-> Event("quick_research", NoSuchId,
                     IF LoggerErrorRaises THEN "raised" ELSE "error", e)]

\* The polling loop of quick_research from task_run.retrieve on, to the next
\* asyncio.sleep(5) or to the return.
QuickOutcomes(polls) ==
    {QuickFailed(ExcRetrieve), QuickFailed(ExcResult)}
    \cup (IF polls < MaxPolls
          THEN {[pc |-> "sleeping", event |-> Event("quick_research", NoSuchId, "sleep", "")]}
          ELSE {})
    \cup {[pc |-> "idle", event |-> Event("quick_research", NoSuchId, "complete", "")]}

QuickAfter(out, polls, calls) ==
    /\ quick' = [pc |-> out.pc,
                 polls |-> IF out.pc = "sleeping" THEN polls + 1 ELSE 0,
                 calls |-> calls]
    /\ event' = out.event

\* A call of quick_research, up to its first asyncio.sleep(5) or its return.
quick_research(query, create_ok) ==
    /\ quick.pc = "idle"
    /\ IF parallel_client = None
       THEN /\ create_ok
            /\ event' = Event("quick_research", NoSuchId, "client_error", "")
            /\ UNCHANGED quick
       ELSE /\ CreateCalls < MaxCalls
            /\ \E out \in (IF create_ok THEN QuickOutcomes(0)
                           ELSE {QuickFailed(ExcCreate)}) :
                  QuickAfter(out, 0, quick.calls + 1)
    /\ UNCHANGED <<parallel_client, fail_fast_default, env_default, task_queue,
                   worker, created, status_log>>

\* quick_research going on after asyncio.sleep(5).
quick_research_resume ==
    /\ quick.pc = "sleeping"
    /\ \E out \in QuickOutcomes(quick.polls) : QuickAfter(out, quick.polls, quick.calls)
    /\ UNCHANGED <<parallel_client, fail_fast_default, env_default, task_queue,
                   worker, created, status_log>>

----------------------------------------------------------------------------
Next ==
    \/ \E query \in Queries, arg \in ProcessorArgs, create_ok \in BOOLEAN :
          deep_research(query, arg, create_ok)
    \/ \E j \in TaskIds : poll_parallel_task(j)
    \/ \E task_id \in TaskIds \cup {NoSuchId} : task_status(task_id)
    \/ \E task_id \in TaskIds \cup {NoSuchId}, chunk \in ChunkArgs :
          get_research_chunk(task_id, chunk)
    \/ \E query \in Queries, create_ok \in BOOLEAN : quick_research(query, create_ok)
    \/ quick_research_resume

Spec == Init /\ [][Next]_vars

\* The event loop runs every coroutine that is ready: a worker that was
\* created or whose sleep is over gets its next run.
FairSpec == Spec /\ \A j \in TaskIds : WF_vars(poll_parallel_task(j))

----------------------------------------------------------------------------
\* Identifiers that repeat
\*
\* Next takes uuid.uuid4() to hand out an identifier no record has. The
\* action below is a deep_research call whose uuid.uuid4() hands out the key
\* task_id of a record of the registry.

\* deep_research from line 555 on with the identifier task_id of an existing
\* record: task_queue[task_id] = task_state binds the key to the new record.
\* The worker of the old record keeps the old TaskState object, which no key
\* of the registry names any more; worker[task_id] is from here on the worker
\* of the record the key names.
deep_research_id_repeats(query, arg, create_ok, task_id) ==
    /\ parallel_client # None
    /\ task_id \in DOMAIN task_queue
    /\ LET processor == ResolveProcessor(arg)
           task_state == TaskState(task_id, query, processor)
       IN  /\ created' = [created EXCEPT ![task_id] =
                               Some(CreateCall(query, processor, create_ok))]
           /\ IF create_ok
              THEN /\ task_queue' = [task_queue EXCEPT ![task_id] =
                          [task_state EXCEPT !.run_id = Some(RunId(task_id)),
                                             !.status = APPROVED]]
                   /\ status_log' = [status_log EXCEPT ![task_id] = <<PENDING, APPROVED>>]
                   /\ worker' = [worker EXCEPT ![task_id] =
                                    [pc |-> "spawned", poll_count |-> 0]]
                   /\ event' = Event("deep_research", task_id, "submitted", "")
              ELSE /\ worker' = [worker EXCEPT ![task_id] = NoWorker]
                   /\ IF LoggerErrorRaises
                      THEN /\ task_queue' = [task_queue EXCEPT ![task_id] = task_state]
                           /\ status_log' = [status_log EXCEPT ![task_id] = <<PENDING>>]
                           /\ event' = Event("deep_research", task_id, "raised", ExcCreate)
                      ELSE /\ task_queue' = [task_queue EXCEPT ![task_id] =
                                  [task_state EXCEPT !.status = FAILED,
                                                     !.error = Some(ExcCreate)]]
                           /\ status_log' = [status_log EXCEPT ![task_id] =
                                                  <<PENDING, FAILED>>]
                           /\ event' = Event("deep_research", task_id, "error", ExcCreate)
    /\ UNCHANGED <<parallel_client, fail_fast_default, env_default, quick>>

NextIdRepeats ==
    \/ Next
    \/ \E query \in Queries, arg \in ProcessorArgs, create_ok \in BOOLEAN,
          task_id \in TaskIds : deep_research_id_repeats(query, arg, create_ok, task_id)

\* The server with a uuid.uuid4() that may repeat an identifier.
IdRepeatsSpec == Init /\ [][NextIdRepeats]_vars

----------------------------------------------------------------------------
\* Logging calls that raise
\*
\* Next takes SystemLogger.info and log_exit to return. The two actions below
\* are the runs in which the logging call that follows the last write of a
\* try block raises: the except block of the same function then handles the
\* exception of the logging call.

\* poll_parallel_task from the result to the end when SystemLogger.info(
\* "Research successful", ...) raises: the result is installed and the status
\* COMPLETE, then the except block runs.
WorkerCompletedLogRaises(task_state, log, saw, n, nbasis) ==
    LET done == WorkerCompleted(task_state, log, saw, n, nbasis)
    IN  WorkerFailed(done.task, done.log, saw, ExcLog)

\* One run of the coroutine of job j that ends in the raising
\* SystemLogger.info call after status = COMPLETE.
poll_parallel_task_log_raises(j) ==
    /\ j \in DOMAIN task_queue
    /\ worker[j].pc \in {"spawned", "sleeping"}
    /\ LET started == worker[j].pc = "sleeping"
           task_state == IF started THEN task_queue[j]
                         ELSE [task_queue[j] EXCEPT !.status = RUNNING,
                                                    !.started_at = Some("now")]
           log == IF started THEN status_log[j] ELSE Append(status_log[j], RUNNING)
       IN  \E saw \in {"completed", "failed"}, content \in {"absent", "str", "dict"},
              r \in RemoteResults :
              LET out == WorkerCompletedLogRaises(task_state, log, saw,
                                                  ContentLen(content, r[1]), r[2])
              IN  /\ task_queue' = [task_queue EXCEPT ![j] = out.task]
                  /\ worker' = [worker EXCEPT ![j] = [pc |-> out.pc, poll_count |-> 0]]
                  /\ status_log' = [status_log EXCEPT ![j] = out.log]
                  /\ event' = Event("poll_parallel_task", j, out.kind, out.detail)
    /\ UNCHANGED <<parallel_client, fail_fast_default, env_default, created, quick>>

\* deep_research when task_run.create returns a run and the log_exit call
\* after asyncio.create_task raises: run_id and APPROVED are written and the
\* worker exists when the except block runs.
deep_research_log_raises(query, arg) ==
    /\ parallel_client # None
    /\ CreateCalls < MaxCalls
    /\ LET task_id == uuid4
           processor == ResolveProcessor(arg)
           task_state == [TaskState(task_id, query, processor) EXCEPT
                            !.run_id = Some(RunId(task_id)), !.status = APPROVED]
       IN  /\ created' = [created EXCEPT ![task_id] =
                               Some(CreateCall(query, processor, TRUE))]
           /\ worker' = [worker EXCEPT ![task_id].pc = "spawned"]
           /\ IF LoggerErrorRaises
              THEN /\ task_queue' = task_queue @@ (task_id :> task_state)
                   /\ status_log' = [status_log EXCEPT ![task_id] = <<PENDING, APPROVED>>]
                   /\ event' = Event("deep_research", task_id, "raised", ExcLog)
              ELSE /\ task_queue' = task_queue @@ (task_id :>
                          [task_state EXCEPT !.status = FAILED, !.error = Some(ExcLog)])
                   /\ status_log' = [status_log EXCEPT ![task_id] =
                                          <<PENDING, APPROVED, FAILED>>]
                   /\ event' = Event("deep_research", task_id, "error", ExcLog)
    /\ UNCHANGED <<parallel_client, fail_fast_default, env_default, quick>>

NextLogRaises ==
    \/ Next
    \/ \E query \in Queries, arg \in ProcessorArgs : deep_research_log_raises(query, arg)
    \/ \E j \in TaskIds : poll_parallel_task_log_raises(j)

\* The server with logging calls that may raise.
LogRaisesSpec == Init /\ [][NextLogRaises]_vars

----------------------------------------------------------------------------
\* Helpers of the properties

Jobs == DOMAIN task_queue

Terminal == {COMPLETE, FAILED, CANCELLED}

Last(s) == s[Len(s)]

\* s is a subsequence of t
RECURSIVE IsSubseq(_, _)
IsSubseq(s, t) ==
    IF s = <<>> THEN TRUE
    ELSE IF t = <<>> THEN FALSE
    ELSE IF Head(s) = Head(t) THEN IsSubseq(Tail(s), Tail(t))
    ELSE IsSubseq(s, Tail(t))

\* The paths of the state machine.
Paths == {<<PENDING, APPROVED, RUNNING, COMPLETE>>,
          <<PENDING, APPROVED, RUNNING, FAILED>>,
          <<PENDING, CANCELLED>>}

----------------------------------------------------------------------------
\* C1. State monotonicity: for every job, the sequence of the values its
\* status has taken (every assignment, also those inside one handler) is a
\* subsequence of Pending, Approved, Running, Complete, or of Pending,
\* Approved, Running, Failed, or of Pending, Cancelled; the record's status is
\* the last of them.
C1_StateMonotonic ==
    \A j \in Jobs :
        /\ status_log[j] # <<>>
        /\ task_queue[j].status = Last(status_log[j])
        /\ \E path \in Paths : IsSubseq(status_log[j], path)

\* A job has run the whole path to Complete while another one failed.
C1_Witness ==
    /\ \E j \in Jobs : status_log[j] = <<PENDING, APPROVED, RUNNING, COMPLETE>>
    /\ \E j \in Jobs : status_log[j] = <<PENDING, APPROVED, RUNNING, FAILED>>

\* C2. Terminal exclusivity: a Complete job has no error, a Failed job has no
\* result.
C2_TerminalExclusive ==
    \A j \in Jobs :
        /\ task_queue[j].status = COMPLETE => task_queue[j].error = None
        /\ task_queue[j].status = FAILED => task_queue[j].result = None

\* One job is Complete with its result and another is Failed with its error,
\* after its worker ran.
C2_Witness ==
    /\ \E j \in Jobs : /\ task_queue[j].status = COMPLETE
                       /\ task_queue[j].result # None
    /\ \E j \in Jobs : /\ task_queue[j].status = FAILED
                       /\ task_queue[j].error # None
                       /\ task_queue[j].started_at # None

\* C3. Whenever a step of a worker's run (a status poll, the result fetch,
\* the parsing of the result) raises an exception, the job is Failed with
\* that exception's text as its error; no job is Running with its worker gone.
C3_ExceptionMeansFailed ==
    /\ (event.op = "poll_parallel_task" /\ event.detail # "") =>
            /\ task_queue[event.task_id].status = FAILED
            /\ task_queue[event.task_id].error = Some(event.detail)
    /\ \A j \in Jobs :
            worker[j].pc \in {"done", "crashed"} => task_queue[j].status # RUNNING

\* C4. Liveness: under fair scheduling of the worker, every job whose run
\* was created and has reported inactive comes to Complete or Failed.
C4_InactiveRunEndsTerminal ==
    \A j \in TaskIds :
        (/\ event.op = "poll_parallel_task"
         /\ event.task_id = j
         /\ event.kind \in {"completed", "failed"})
        ~> (j \in Jobs /\ task_queue[j].status \in {COMPLETE, FAILED})

\* C4, the scenario: a run of the worker in which the remote reported the run
\* completed and nothing raised leaves the job Complete with the remote's
\* content, in one chunk when the content is within the limit.
C4_ScenarioCompletes ==
    (event.op = "poll_parallel_task" /\ event.kind = "completed" /\ event.detail = "") =>
        LET task == task_queue[event.task_id] IN
        /\ task.status = COMPLETE
        /\ task.result # None
        /\ Get(task.result).content \in {Text(n) : n \in ContentLens}
        /\ TextLen(Get(task.result).content) <= chunk_size =>
                Get(task.result).total_chunks = 1

\* C5. Chunking round trip: the stored chunks of a Complete job, joined in
\* order, are its content, and there is exactly one chunk if and only if
\* len(content) / 4 <= 15000.
C5_ChunkRoundTrip ==
    \A j \in Jobs :
        task_queue[j].status = COMPLETE =>
            LET result == Get(task_queue[j].result) IN
            /\ Join(result.chunks) = result.content
            /\ Len(result.chunks) = 1 <=>
                    TextLen(result.content) <= TokenLimit * CharsPerToken

\* A job completed with a content one character over the limit, in two
\* chunks, and another with a content exactly at the limit, in one.
C5_Witness ==
    /\ \E j \in Jobs : /\ task_queue[j].status = COMPLETE
                       /\ TextLen(Get(task_queue[j].result).content) = chunk_size + 1
                       /\ Len(Get(task_queue[j].result).chunks) = 2
    /\ \E j \in Jobs : /\ task_queue[j].status = COMPLETE
                       /\ TextLen(Get(task_queue[j].result).content) = chunk_size
                       /\ Len(Get(task_queue[j].result).chunks) = 1

\* What the handlers that only answer leave alone.
HandlerFrame == UNCHANGED <<parallel_client, fail_fast_default, env_default,
                            task_queue, worker, created, quick, status_log>>

C6_NotReady ==
    \A j \in Jobs, k \in ChunkArgs :
        task_queue[j].status # COMPLETE =>
            ChunkResponse(j, k) = Response("not_ready", task_queue[j].status, <<>>, k, 0)

\* C6. get_research_chunk on a known job that is not Complete answers not
\* ready, naming the job's current state and carrying no chunk text, and
\* changes nothing.
C6_FetchNotReady ==
    /\ []C6_NotReady
    /\ [][event'.op = "get_research_chunk" => HandlerFrame]_vars

\* get_research_chunk was called while one job was Running and another one
\* Failed.
C6_Witness ==
    /\ event.op = "get_research_chunk"
    /\ \E j \in Jobs : task_queue[j].status = RUNNING
    /\ \E j \in Jobs : task_queue[j].status = FAILED

\* C7. Chunk bounds: for a Complete job with total_chunks = N,
\* get_research_chunk(id, k) answers the k-th stored chunk with its position
\* k of N for 1 <= k <= N, and out of range for k < 1 and for k > N.
C7_ChunkBounds ==
    \A j \in Jobs, k \in ChunkArgs :
        task_queue[j].status = COMPLETE =>
            LET result == Get(task_queue[j].result)
                N == result.total_chunks
            IN  IF 1 <= k /\ k <= N
                THEN ChunkResponse(j, k) = Response("chunk", "", result.chunks[k], k, N)
                ELSE ChunkResponse(j, k) = Response("out_of_range", "", <<>>, k, N)

\* get_research_chunk was called with a job Complete in three chunks.
C7_Witness ==
    /\ event.op = "get_research_chunk"
    /\ \E j \in Jobs : /\ task_queue[j].status = COMPLETE
                       /\ Get(task_queue[j].result).total_chunks = 3
                       /\ 0 \in ChunkArgs /\ 4 \in ChunkArgs

\* deep_research answered the caller with the task id.
ReturnedBySubmit(id) ==
    id \in TaskIds /\ created[id] # None /\ Get(created[id]).ok

NotFoundFor(id) ==
    /\ StatusResponse(id) = Response("not_found", "", <<>>, 0, 0)
    /\ \A k \in ChunkArgs : ChunkResponse(id, k) = Response("not_found", "", <<>>, k, 0)

\* C8 as stated: for every identifier deep_research never returned,
\* task_status and get_research_chunk answer not found.
C8_NeverReturnedIsNotFound ==
    \A id \in TaskIds \cup {NoSuchId} : ~ReturnedBySubmit(id) => NotFoundFor(id)

C8_UnknownNotFound ==
    \A id \in (TaskIds \cup {NoSuchId}) \ Jobs : NotFoundFor(id)

\* C8, amended. For every identifier that is no key of the registry,
\* task_status and get_research_chunk answer not found (a value, no
\* exception), and neither handler changes the registry or a record.
C8_UnknownIdHandling ==
    /\ []C8_UnknownNotFound
    /\ [][event'.op \in {"task_status", "get_research_chunk"} => HandlerFrame]_vars

\* task_status was called with one job in the registry and the other
\* identifiers unknown.
C8_Witness ==
    /\ event.op = "task_status"
    /\ Cardinality(Jobs) = 1
    /\ \E j \in Jobs : ReturnedBySubmit(j)

\* The step is a deep_research call with the processor argument arg that
\* gets past the client check.
SubmitStep(arg) ==
    /\ parallel_client # None
    /\ \E query \in Queries, create_ok \in BOOLEAN : deep_research(query, arg, create_ok)

\* The job of the step has the processor tier, task_run.create was called
\* with it, and a create that returned a run is answered with the task id.
SubmittedWith(tier) ==
    /\ event'.op = "deep_research"
    /\ event'.task_id \in DOMAIN task_queue' \ DOMAIN task_queue
    /\ task_queue'[event'.task_id].processor = tier
    /\ Get(created'[event'.task_id]).processor = tier
    /\ Get(created'[event'.task_id]).ok => event'.kind = "submitted"

\* C9 as stated: a deep_research call with a processor outside the
\* enumeration, or with none, creates a job with processor pro.
C9_DefaultIsPro ==
    [][\A arg \in ProcessorArgs :
          (SubmitStep(arg) /\ (arg = None \/ Get(arg) \notin valid_processors))
              => SubmittedWith("pro")]_vars

\* C9, amended. A deep_research call with a processor outside the
\* enumeration creates a job with processor pro; a call with no processor
\* creates a job with the DEFAULT_PROCESSOR of the environment when that is a
\* name of the enumeration, and with pro when it is unset or no such name.
\* Neither is answered with an error for that reason, and the job's
\* processor is the one passed to task_run.create.
C9_TierDefault ==
    [][\A arg \in ProcessorArgs :
          SubmitStep(arg) =>
              IF arg # None
              THEN SubmittedWith(IF Get(arg) \in valid_processors THEN Get(arg) ELSE "pro")
              ELSE SubmittedWith(IF env_default # None /\ Get(env_default) \in valid_processors
                                 THEN Get(env_default) ELSE "pro")]_vars

\* deep_research was called without a processor under DEFAULT_PROCESSOR=core
\* and created a job with processor core; another job got pro.
C9_Witness ==
    /\ event.op = "deep_research"
    /\ env_default = Some("core")
    /\ \E j \in Jobs : task_queue[j].processor = "core"
    /\ \E j \in Jobs : task_queue[j].processor = "pro"

\* C10. RemoteUnavailable: with no client, deep_research and quick_research
\* answer the error, and no step makes a task_run.create call, creates a
\* worker or a record, or starts the polling of quick_research.
C10_RemoteUnavailable ==
    [][parallel_client = None =>
          /\ event'.op \in {"deep_research", "quick_research"} =>
                event'.kind = "client_error"
          /\ UNCHANGED <<task_queue, worker, created, quick, status_log>>]_vars

\* deep_research was called with no client and answered the error.
C10_Witness ==
    /\ parallel_client = None
    /\ event.op = "deep_research"
    /\ event.kind = "client_error"
    /\ task_queue = <<>>

\* C11. RemoteSubmissionFailed: when the task_run.create call of
\* deep_research fails, the record is in the registry, Failed with the
\* failure's text as its error, without a run_id, and no worker was created
\* for it.
C11_CreateFailureMeansFailed ==
    \A j \in TaskIds :
        (created[j] # None /\ ~Get(created[j]).ok) =>
            /\ j \in Jobs
            /\ task_queue[j].status = FAILED
            /\ task_queue[j].error = Some(ExcCreate)
            /\ task_queue[j].run_id = None
            /\ worker[j].pc = "none"

\* C12. For every processor but lite, deep_research has obtained the
\* decision of the user before it calls task_run.create, and no run is
\* created without an approval.
C12_ApprovalBeforeCreate ==
    \A j \in TaskIds :
        (created[j] # None /\ Get(created[j]).processor # "lite") =>
            ApprovalDecision(j) = Some(TRUE)

\* The step is a deep_research call that creates a record with a processor
\* that needs approval, made by a user whose answer to the approval request
\* is approved.
SubmitStepOf(approved) ==
    /\ \E arg \in ProcessorArgs : SubmitStep(arg)
    /\ event'.task_id \in DOMAIN task_queue' \ DOMAIN task_queue
    /\ task_queue'[event'.task_id].processor # "lite"
    /\ approved \in ApprovalAnswers

\* C13. A deep_research call whose approval is declined leaves the job
\* Cancelled, with no task_run.create call and no worker; and no job becomes
\* Cancelled from another status than Pending.
C13_DeclineCancels ==
    [][/\ SubmitStepOf(FALSE) =>
            /\ task_queue'[event'.task_id].status = CANCELLED
            /\ created'[event'.task_id] = None
            /\ worker'[event'.task_id].pc = "none"
       /\ \A j \in Jobs :
            (task_queue'[j].status = CANCELLED /\ task_queue[j].status # CANCELLED)
                => task_queue[j].status = PENDING]_vars

\* C14. When deep_research answers with the task id, the job is Approved
\* with its run_id, not started, without result or error, and its worker is
\* created and has not run; a job is Approved exactly as long as its worker
\* has not run, and is Running, Complete or Failed after a run was created
\* only when its worker has run.
C14_SubmitDoesNotWait ==
    /\ (event.op = "deep_research" /\ event.kind = "submitted") =>
            LET task == task_queue[event.task_id] IN
            /\ task.status = APPROVED
            /\ task.run_id # None
            /\ task.started_at = None
            /\ task.result = None /\ task.error = None
            /\ worker[event.task_id] = [pc |-> "spawned", poll_count |-> 0]
    /\ \A j \in Jobs :
            /\ task_queue[j].status = APPROVED <=> worker[j].pc = "spawned"
            /\ (task_queue[j].status \in {RUNNING, COMPLETE}
                    \/ (task_queue[j].status = FAILED /\ task_queue[j].run_id # None))
                => worker[j].pc \in {"sleeping", "done", "crashed"}

\* deep_research has just answered with a task id while an earlier job is
\* already Complete through its worker.
C14_Witness ==
    /\ event.op = "deep_research" /\ event.kind = "submitted"
    /\ task_queue[event.task_id].status = APPROVED
    /\ \E j \in Jobs : task_queue[j].status = COMPLETE /\ worker[j].pc = "done"

\* C15. Status is idempotent on terminal jobs: any two task_status calls for
\* a Complete, Failed or Cancelled job, at any two times, show the same view
\* (the response and the reported duration).
C15_StatusIdempotent ==
    \A j \in Jobs :
        task_queue[j].status \in Terminal =>
            \A t1, t2 \in Times : t1 <= t2 => StatusView(j, t1) = StatusView(j, t2)

\* C16. Single worker: a job's worker is created once, by the deep_research
\* call that creates the job's record, and never again (no step of a worker
\* leaves a newly created worker behind); and a result, once installed, is
\* not installed again.
C16_SingleWorker ==
    [][\A j \in TaskIds :
          /\ (worker'[j].pc = "spawned" /\ worker[j].pc # "spawned") =>
                /\ worker[j].pc = "none"
                /\ j \notin Jobs
                /\ event'.op = "deep_research" /\ event'.task_id = j
          /\ (event'.op = "poll_parallel_task" /\ event'.task_id = j) =>
                worker'[j].pc # "spawned"
          /\ (j \in Jobs /\ task_queue[j].result # None) =>
                task_queue'[j].result = task_queue[j].result]_vars

\* Both jobs have had their worker, the registry is full, and one worker has
\* installed its result while the other has ended on an exception.
C16_Witness ==
    /\ Jobs = TaskIds
    /\ \E j \in Jobs : worker[j].pc = "done" /\ task_queue[j].result # None
    /\ \E j \in Jobs : worker[j].pc \in {"done", "crashed"} /\ task_queue[j].result = None

\* C17. Snapshot consistency: in every state a handler can run in, a job
\* that is Complete has its result with the chunks and their number, and
\* task_status and get_research_chunk answer from it; a job that is Failed
\* has its error, and task_status quotes it.
C17_SnapshotConsistent ==
    \A j \in Jobs :
        /\ task_queue[j].status = COMPLETE =>
                /\ task_queue[j].result # None
                /\ Get(task_queue[j].result).total_chunks >= 1
                /\ Get(task_queue[j].result).total_chunks
                        <= Len(Get(task_queue[j].result).chunks)
                /\ StatusResponse(j).kind \in {"complete", "complete_chunked"}
                /\ ChunkResponse(j, 1).kind = "chunk"
        /\ task_queue[j].status = FAILED =>
                /\ task_queue[j].error # None
                /\ StatusResponse(j) = Response("failed", Get(task_queue[j].error), <<>>, 0, 0)

\* A handler was called while one job was Complete, another Failed by its
\* worker.
C17_Witness ==
    /\ event.op \in {"task_status", "get_research_chunk"}
    /\ \E j \in Jobs : task_queue[j].status = COMPLETE
    /\ \E j \in Jobs : task_queue[j].status = FAILED /\ worker[j].pc = "done"

\* C18. The registry never removes or replaces a record: every id that a
\* deep_research call has inserted is a key of the registry, its record is
\* the one that call built (its task_id, query and processor) with the
\* status written last, and task_status and get_research_chunk find it.
C18_RegistryKeepsRecords ==
    \A j \in TaskIds :
        created[j] # None =>
            /\ j \in Jobs
            /\ task_queue[j].task_id = j
            /\ task_queue[j].query = Get(created[j]).input
            /\ task_queue[j].processor = Get(created[j]).processor
            /\ task_queue[j].status = Last(status_log[j])
            /\ StatusResponse(j).kind # "not_found"
            /\ \A k \in ChunkArgs : ChunkResponse(j, k).kind # "not_found"

\* The registry is full: the first job has completed and the last one was
\* submitted, failed or completed after it, and a handler is called.
C18_Witness ==
    /\ Jobs = TaskIds
    /\ task_queue[1].status = COMPLETE
    /\ task_queue[MaxCalls].status \in {APPROVED, FAILED, COMPLETE}
    /\ event.op \in {"task_status", "get_research_chunk"}

\* The step writes the status, the result or the error of job j's record
\* after the record was built (TaskState(...) itself sets PENDING, None, None).
WritesRecord(j) ==
    \/ status_log'[j] # status_log[j] /\ status_log'[j] # <<PENDING>>
    \/ /\ j \in DOMAIN task_queue'
       /\ IF j \in DOMAIN task_queue
          THEN \/ task_queue'[j].result # task_queue[j].result
               \/ task_queue'[j].error # task_queue[j].error
          ELSE \/ task_queue'[j].result # None
               \/ task_queue'[j].error # None

\* The step is a run of job j's own worker.
WorkerStepOf(j) == event'.op = "poll_parallel_task" /\ event'.task_id = j

\* C19 as stated: after a record is created, its status, result and error
\* are written by the job's own worker only.
C19_OnlyWorkerWrites ==
    [][\A j \in TaskIds : WritesRecord(j) => WorkerStepOf(j)]_vars

\* C19, amended. The status, result and error of a record are written only
\* by the deep_research call that created it, before that call ends (Approved
\* when the run is created, Failed with the error when it is not), and after
\* that by the job's own worker; no other deep_research call, no task_status,
\* get_research_chunk or quick_research and no other job's worker writes them.
C19_SingleWriter ==
    [][\A j \in TaskIds :
          WritesRecord(j) =>
              \/ WorkerStepOf(j)
              \/ /\ event'.op = "deep_research" /\ event'.task_id = j
                 /\ j \notin DOMAIN task_queue
                 /\ task_queue'[j].result = None]_vars

\* The worker of one job has just written its record while the other job's
\* worker is between two polls.
C19_Witness ==
    /\ event.op = "poll_parallel_task"
    /\ task_queue[event.task_id].status \in {COMPLETE, FAILED}
    /\ \E j \in Jobs : j # event.task_id /\ worker[j].pc = "sleeping"

\* C20. A run of the worker whose poll saw the remote run inactive with an
\* error outcome never leaves the job Complete: a worker's run leaves the job
\* Complete only when its poll saw the remote run completed.
C20_ErrorOutcomeNeverCompletes ==
    (event.op = "poll_parallel_task"
        /\ task_queue[event.task_id].status = COMPLETE) => event.kind = "completed"

RecordBefore(j) ==
    IF j \in DOMAIN task_queue THEN task_queue[j]
    ELSE [status |-> PENDING, result |-> None, error |-> None]

\* C22: a job that is PENDING, APPROVED or RUNNING has neither result nor
\* error; a step that changes result leaves the job COMPLETE, coming from
\* another status, and a step that changes error leaves it FAILED, coming
\* from another status.
C22_ResultAndErrorOnlyAtTerminal ==
    [][\A j \in DOMAIN task_queue' :
         LET new == task_queue'[j]
             old == RecordBefore(j)
         IN  /\ new.status \in {PENDING, APPROVED, RUNNING}
                  => new.result = None /\ new.error = None
             /\ new.result # old.result
                  => new.result # None /\ new.status = COMPLETE /\ old.status # COMPLETE
             /\ new.error # old.error
                  => new.error # None /\ new.status = FAILED /\ old.status # FAILED]_vars

\* A job is COMPLETE with its result and another one FAILED by its worker with
\* its text.
C22_Witness ==
    \E j \in Jobs, k \in Jobs :
        /\ task_queue[j].status = COMPLETE /\ task_queue[j].result # None
        /\ task_queue[j].error = None
        /\ task_queue[k].status = FAILED /\ task_queue[k].error # None
        /\ task_queue[k].result = None /\ task_queue[k].started_at # None

\* ceil(n / size), as the least number of pieces of size that cover n.
CeilDiv(n, size) == CHOOSE c \in 0..n : (c - 1) * size < n /\ n <= c * size

\* C23: a result text T with len(T) / 4 > 15000 is stored as the consecutive
\* slices T[0:60000], T[60000:120000], ...: chunk k starts where chunk k-1
\* ended, has between 1 and 60000 characters and exactly 60000 unless it is
\* the last, the last one ends at the end of T, there are ceil(len(T)/60000)
\* chunks and at least 2; total_chunks is the length of the chunk list for
\* every result.
C23_ChunksAreConsecutiveSlices ==
    \A j \in Jobs :
        task_queue[j].result # None =>
            LET result == Get(task_queue[j].result)
                len == TextLen(result.content)
                chunks == result.chunks
            IN  /\ result.total_chunks = Len(chunks)
                /\ len > TokenLimit * CharsPerToken =>
                     /\ Len(chunks) = CeilDiv(len, TokenLimit * CharsPerToken)
                     /\ Len(chunks) >= 2
                     /\ \A k \in 1..Len(chunks) :
                          /\ Len(chunks[k]) = 1
                          /\ chunks[k][1][1] = (k - 1) * (TokenLimit * CharsPerToken)
                          /\ TextLen(chunks[k]) \in 1..(TokenLimit * CharsPerToken)
                          /\ k < Len(chunks) =>
                               TextLen(chunks[k]) = TokenLimit * CharsPerToken
                     /\ chunks[Len(chunks)][1][2] = len

\* A job completed with a text one character over two whole chunks, stored
\* in three chunks of which the last has one character.
C23_Witness ==
    \E j \in Jobs :
        /\ task_queue[j].status = COMPLETE
        /\ TextLen(Get(task_queue[j].result).content) = 2 * chunk_size + 1
        /\ Get(task_queue[j].result).total_chunks = 3
        /\ TextLen(Get(task_queue[j].result).chunks[3]) = 1

\* C24: a job leaves RUNNING only in a run of its own worker in which
\* task_run.retrieve reported the run inactive or a call raised; a run of the
\* worker in which the poll reports the run active leaves the job RUNNING and
\* the worker asleep before its next poll, however many polls came before;
\* task_status, get_research_chunk and another deep_research leave a RUNNING
\* job RUNNING.
C24_RunningUntilInactiveOrException ==
    [][\A j \in Jobs :
         /\ (task_queue[j].status = RUNNING /\ task_queue'[j].status # RUNNING)
               => /\ event'.op = "poll_parallel_task"
                  /\ event'.task_id = j
                  /\ event'.kind \in {"completed", "failed", "raise"}
         /\ (WorkerStepOf(j) /\ event'.kind = "running")
               => /\ task_queue'[j].status = RUNNING
                  /\ worker'[j].pc = "sleeping"
                  /\ worker'[j].poll_count = worker[j].poll_count + 1]_vars

\* A job is RUNNING after its worker was told MaxPolls times that the run is
\* active, and a caller asked for its status meanwhile.
C24_Witness ==
    \E j \in Jobs :
        /\ task_queue[j].status = RUNNING
        /\ worker[j].pc = "sleeping"
        /\ worker[j].poll_count = MaxPolls
        /\ event.op = "task_status"

\* C25: a run of the worker of job j, its failure included, leaves the keys
\* of the registry as they are and changes no record but that of job j: the
\* status, result, error, started_at and run_id of every other job, and the
\* other workers, are after the step what they were before it.
C25_WorkerIsolation ==
    [][\A j \in TaskIds :
         WorkerStepOf(j) =>
            /\ DOMAIN task_queue' = DOMAIN task_queue
            /\ \A k \in Jobs \ {j} :
                  /\ task_queue'[k].status = task_queue[k].status
                  /\ task_queue'[k].result = task_queue[k].result
                  /\ task_queue'[k].error = task_queue[k].error
                  /\ task_queue'[k].started_at = task_queue[k].started_at
                  /\ task_queue'[k].run_id = task_queue[k].run_id
                  /\ task_queue'[k] = task_queue[k]
                  /\ worker'[k] = worker[k]]_vars

\* The worker of one job has just ended in its except block with the job
\* FAILED while the worker of the other job sleeps between two polls with
\* its job RUNNING.
C25_Witness ==
    \E j \in Jobs, k \in Jobs :
        /\ j # k
        /\ event.op = "poll_parallel_task" /\ event.task_id = j
        /\ task_queue[j].status = FAILED /\ worker[j].pc = "done"
        /\ task_queue[k].status = RUNNING /\ worker[k].pc = "sleeping"

\* The worker of job j has run its first statements.
WorkerStarted(j) == \E i \in 1..Len(status_log[j]) : status_log[j][i] = RUNNING

\* task_run.create was called for job j and returned a run.
CreateSucceeded(j) == created[j] # None /\ Get(created[j]).ok

\* C26: run_id is set while a job is APPROVED, RUNNING or COMPLETE and unset
\* while it is PENDING; started_at is set while it is RUNNING or COMPLETE and
\* unset while it is PENDING or APPROVED; a FAILED job has started_at only if
\* its worker started and run_id only if task_run.create returned a run.
C26_RunIdAndStartedAt ==
    \A j \in Jobs :
        LET task == task_queue[j] IN
        /\ task.status \in {APPROVED, RUNNING, COMPLETE} => task.run_id # None
        /\ task.status = PENDING => task.run_id = None
        /\ task.status \in {RUNNING, COMPLETE} => task.started_at # None
        /\ task.status \in {PENDING, APPROVED} => task.started_at = None
        /\ task.status = FAILED =>
              /\ task.started_at # None => WorkerStarted(j)
              /\ task.run_id # None => CreateSucceeded(j)

\* One job is FAILED by its worker, with run_id and started_at, and the other
\* is FAILED by deep_research, with neither.
C26_Witness ==
    \E j \in Jobs, k \in Jobs :
        /\ task_queue[j].status = FAILED /\ task_queue[k].status = FAILED
        /\ task_queue[j].run_id # None /\ task_queue[j].started_at # None
        /\ task_queue[k].run_id = None /\ task_queue[k].started_at = None

\* C27: task_status and get_research_chunk only read: whatever the argument
\* and whatever the states of the jobs, a call of either leaves the registry
\* with its keys and every field of every record as they were, creates no
\* worker and ends none, and a worker that sleeps keeps its poll count.
C27_HandlersReadOnly ==
    [][(\/ \E task_id \in TaskIds \cup {NoSuchId} : task_status(task_id)
        \/ \E task_id \in TaskIds \cup {NoSuchId}, chunk \in ChunkArgs :
              get_research_chunk(task_id, chunk))
       => /\ DOMAIN task_queue' = DOMAIN task_queue
          /\ \A j \in Jobs : task_queue'[j] = task_queue[j]
          /\ \A j \in TaskIds : worker'[j] = worker[j]
          /\ status_log' = status_log
          /\ created' = created]_vars

\* get_research_chunk was called while one job was COMPLETE in several
\* chunks and the worker of the other slept between two polls.
C27_Witness ==
    /\ event.op = "get_research_chunk"
    /\ \E j \in Jobs : /\ task_queue[j].status = COMPLETE
                       /\ Get(task_queue[j].result).total_chunks > 1
    /\ \E j \in Jobs : task_queue[j].status = RUNNING /\ worker[j].pc = "sleeping"

\* C28: a deep_research call never puts a record in the place of one the
\* registry holds: also when the identifier it inserts under is a key of the
\* registry already, every record of the registry is after the call the
\* record it was before.
C28_ExistingRecordKept ==
    [][\A j \in Jobs :
         (event'.op = "deep_research" /\ event'.kind # "client_error")
            => j \in DOMAIN task_queue' /\ task_queue'[j] = task_queue[j]]_vars

====
